---- MODULE Spec2Model ----
(***************************************************************************)
(* State/transition model of the Home page component (src/app/page.tsx):   *)
(* the watched form fields, the three fetch effects (institutions,         *)
(* recipient name, rate) with their timers and in-flight requests, the fee *)
(* effect, and the view switch of the render function.                     *)
(*                                                                         *)
(* Time is counted in milliseconds.  Amounts are counted in hundredths     *)
(* (the amount input has step 0.01), fees in units of 10^-5 (toFixed(5)),  *)
(* and the on-chain fee ratio is kept as an exact fraction <<num, den>>,   *)
(* so the arithmetic of the fee effect is exact (no binary floating-point  *)
(* rounding error is modelled).  undefined and "" are both falsy for the   *)
(* string fields and are both modelled as "".                              *)
(*                                                                         *)
(* The file also holds the stand-alone form component (a second Home, with *)
(* its own useForm): its fields, validation rules and submit button are    *)
(* modelled in the variable form, which no handler of the page touches.    *)
(***************************************************************************)
EXTENDS Integers, Sequences, FiniteSets, TLC

VARIABLES
    mounted,                  \* "init" (rendered, effects not yet run), "mounted", "unmounted"
    isPageLoading,
    currency, amount, token, accountIdentifier, institution,   \* watch()
    protocolFeeDetails,       \* useReadContract data: NoFeeDetails or <<num, den>>
    protocolFeePercent, fee,
    feeEffectPending,         \* a dependency of the fee effect changed since its last run
    rate, recipientName, institutions,
    isFetchingInstitutions, isFetchingRate, isFetchingRecipientName,
    formValues, transactionStatus,
    nameTimers, rateTimers,   \* pending setTimeout callbacks of the two debounced effects
    nameEffect, rateEffect,   \* the values captured by the latest run of each debounced effect
    instInFlight, nameInFlight, rateInFlight,   \* awaited requests, in issue order
    sinceCurrency, sinceAccount, sinceInstitution, sinceRateDeps,  \* ms since the last change, capped
    instBurstReqs, nameBurstReqs, rateBurstReqs,   \* requests issued since the current burst began
    nameBurstChanges, rateBurstChanges,            \* changes made in the current burst
    lastInstReq, lastNameReq, lastRateReq,         \* the most recently issued request
    form,                     \* the stand-alone form component: useForm's values and formState
    lastOp                    \* the handler that ran last

vars == <<mounted, isPageLoading, currency, amount, token, accountIdentifier,
          institution, protocolFeeDetails, protocolFeePercent, fee,
          feeEffectPending, rate, recipientName, institutions,
          isFetchingInstitutions, isFetchingRate, isFetchingRecipientName,
          formValues, transactionStatus, nameTimers, rateTimers,
          nameEffect, rateEffect,
          instInFlight, nameInFlight, rateInFlight,
          sinceCurrency, sinceAccount, sinceInstitution, sinceRateDeps,
          instBurstReqs, nameBurstReqs, rateBurstReqs,
          nameBurstChanges, rateBurstChanges,
          lastInstReq, lastNameReq, lastRateReq, form, lastOp>>

formFields == <<currency, amount, token, accountIdentifier, institution>>
feeVars == <<protocolFeeDetails, protocolFeePercent, fee, feeEffectPending>>
instSlots == <<institutions, isFetchingInstitutions>>
nameSlots == <<recipientName, isFetchingRecipientName>>
rateSlots == <<rate, isFetchingRate>>
viewVars == <<formValues, transactionStatus>>
instHist == <<instBurstReqs, lastInstReq>>
nameHist == <<nameBurstReqs, nameBurstChanges, lastNameReq>>
rateHist == <<rateBurstReqs, rateBurstChanges, lastRateReq>>
nameEffectVars == <<nameTimers, nameEffect>>
rateEffectVars == <<rateTimers, rateEffect>>
sinceVars == <<sinceCurrency, sinceAccount, sinceInstitution, sinceRateDeps>>

----------------------------------------------------------------------------
(* Bounds of the model *)

MaxInFlight == 2        \* awaited requests per fetcher
BurstCap == 2           \* the per-burst request counters saturate here

(* Program constants *)

DEBOUNCE_MS == 1000     \* setTimeout(..., 1000)
FEE_DECIMALS == 5       \* toFixed(5)
AMOUNT_DECIMALS == 2    \* step="0.01"

(* Values the inputs are drawn from *)

Currencies == {"NGN", "KES"}
Tokens == {"USDC", "USDT"}
InstitutionCodes == {"GTB", "KCB"}
AccountIdentifiers == {"0123456789", "9876543210"}
Networks == {"base"}
Memos == {"rent"}
AmountUnset == 0 - 1            \* watch() before the field has a value: undefined
Amounts == {0, 1, 250}          \* 0, 0.01, 2.50
FeeRatios == {<<0, 1>>, <<1, 3>>, <<2, 3>>, <<1, 1>>}
NoFeeDetails == <<0, 0>>        \* data is undefined until the contract read resolves
TickSteps == {500, 1000}        \* how far time advances in one step
TransactionStatuses ==
    {"idle", "pending", "processing", "fulfilled", "validated", "settled", "refunded"}

Min(a, b) == IF a < b THEN a ELSE b

INITIAL_FORM_STATE ==
    [network |-> "", token |-> "", amount |-> 0, currency |-> "",
     institution |-> "", accountIdentifier |-> "", recipientName |-> "",
     memo |-> ""]

StringFields ==
    {"network", "token", "currency", "institution", "accountIdentifier",
     "recipientName", "memo"}

----------------------------------------------------------------------------
(* Render: the view switch *)

\* Variant of FormIsEmpty with `some` in place of `every`.
FormIsEmpty_Some(fv) ==
    \/ \E f \in StringFields : fv[f] = ""
    \/ fv.amount = 0

\* Object.values(formValues).every((value) => value === "" || value === 0)
FormIsEmpty(fv) ==
    /\ \A f \in StringFields : fv[f] = ""
    /\ fv.amount = 0

\* Variant of ViewOf that looks at formValues before transactionStatus.
ViewOf_FormFirst(status, fv) ==
    IF ~FormIsEmpty(fv) THEN "preview"
    ELSE IF status # "idle" THEN "status"
    ELSE "form"

\* transactionStatus !== "idle" ? <TransactionStatus/> : every(...) ?
\* <TransactionForm/> : <TransactionPreview/>
ViewOf(status, fv) ==
    IF status # "idle" THEN "status"
    ELSE IF FormIsEmpty(fv) THEN "form"
    ELSE "preview"

View == ViewOf(transactionStatus, formValues)

----------------------------------------------------------------------------
(* The fee effect *)

RECURSIVE Gcd(_, _)
Gcd(a, b) == IF b = 0 THEN a ELSE Gcd(b, a % b)

NaN == <<0, 0>>
FeeNaN == 0 - 1

\* The number num/den as a fraction in lowest terms; 0/0 is NaN.
Fraction(num, den) ==
    IF den = 0 THEN NaN
    ELSE <<num \div Gcd(num, den), den \div Gcd(num, den)>>

\* Number(protocolFeeDetails?.[0]!) / Number(protocolFeeDetails?.[1]!)
FeePercentOf(details) == Fraction(details[1], details[2])

RECURSIVE Pow10(_)
Pow10(n) == IF n = 0 THEN 1 ELSE 10 * Pow10(n - 1)

\* parseFloat(Number(percent * Number(amt)).toFixed(5).toString()), in units
\* of 10^-5: the product rounded to the nearest unit, halves up.
FeeOf(percent, amt) ==
    IF percent = NaN \/ amt = AmountUnset THEN FeeNaN
    ELSE LET scale == Pow10(FEE_DECIMALS - AMOUNT_DECIMALS)
         IN  (2 * amt * scale * percent[1] + percent[2]) \div (2 * percent[2])

\* Variant of FeeEffectRerun for a dependency list without protocolFeePercent.
FeeEffectRerun_NoPercentDep(oldPercent, newPercent) == FALSE

\* The dependency list [protocolFeeDetails, amount, protocolFeePercent]: does
\* the state written by this run schedule another run?
FeeEffectRerun(oldPercent, newPercent) == newPercent # oldPercent

----------------------------------------------------------------------------
(* Timers, requests and the aggregator's answers *)

\* What a run of the recipient-name effect captures, and the timer it sets:
\* timeoutId = setTimeout(getRecipientName, 1000)
NameClosure(inst, acct) == [institution |-> inst, accountIdentifier |-> acct]
NameTimer(inst, acct) ==
    [remaining |-> DEBOUNCE_MS, latest |-> TRUE, closure |-> NameClosure(inst, acct)]

\* The recipient-name effect's dependency list: [accountIdentifier]
NameEffectDeps(inst, acct) == <<acct>>

\* What a run of the rate effect captures, and the timer it sets:
\* timeoutId = setTimeout(getRate, 1000)
RateClosure(cur, amt, tok) == [currency |-> cur, amount |-> amt, token |-> tok]
RateTimer(cur, amt, tok) ==
    [remaining |-> DEBOUNCE_MS, latest |-> TRUE, closure |-> RateClosure(cur, amt, tok)]

\* Variant of CleanUp for an effect that returns no cleanup function: the
\* timer of the run being replaced stays pending.
CleanUp_Missing(timers) == {[t EXCEPT !.latest = FALSE] : t \in timers}

\* The cleanup function of a debounced effect, run before the effect runs
\* again and on unmount: clearTimeout(timeoutId) clears the timer of the run
\* being replaced (a no-op when it has fired already).  The clearTimeout in
\* debounceFetch... is given the new run's still unassigned timeoutId and
\* clears nothing.
CleanUp(timers) == {t \in timers : ~t.latest}

NoInstReq == [issued |-> FALSE, currency |-> ""]
NoNameReq == [issued |-> FALSE, institution |-> "", accountIdentifier |-> ""]
NoRateReq == [issued |-> FALSE, token |-> "", amount |-> 0, currency |-> ""]

\* fetchSupportedInstitutions(currency)
InstRequest(cur) == [issued |-> TRUE, currency |-> cur]

\* fetchAccountName({ institution, accountIdentifier })
NameRequest(inst, acct) ==
    [issued |-> TRUE, institution |-> inst, accountIdentifier |-> acct]

\* fetchRate({ token: "USDT", amount: amount, currency: currency })
RateRequest(cur, amt, tok) ==
    [issued |-> TRUE, token |-> "USDT", amount |-> amt, currency |-> cur]

\* What the aggregator answers; each answer identifies its request.
InstitutionsOf(req) == IF req.currency = "NGN" THEN <<"GTB">> ELSE <<"KCB">>
AccountNameOf(req) == req.institution \o ":" \o req.accountIdentifier
RateOf(req) ==
    (IF req.currency = "NGN" THEN 1500 ELSE 130)
    + (IF req.token = "USDT" THEN 0 ELSE 1)

Due(timers) == \E t \in timers : t.remaining = 0
NoTimerDue == ~Due(nameTimers) /\ ~Due(rateTimers)

Remove(seq, i) == SubSeq(seq, 1, i - 1) \o SubSeq(seq, i + 1, Len(seq))

Elapse(timers, d) == {[t EXCEPT !.remaining = @ - d] : t \in timers}

\* Count of a burst: a change more than DEBOUNCE_MS after the previous one
\* starts a new burst.
BurstCount(since, count) == IF since >= DEBOUNCE_MS THEN 0 ELSE count
Bump(count) == Min(count + 1, BurstCap)

\* Variant of RateEffectDeps for a dependency list without token.
RateEffectDeps_NoToken(cur, amt, tok) == <<cur, amt>>

\* The dependency lists of the institutions and rate effects
InstEffectDeps(cur) == <<cur>>
RateEffectDeps(cur, amt, tok) == <<cur, amt, tok>>

\* if (!accountIdentifier || !institution) return;
NameGuardPasses(inst, acct) == acct # "" /\ inst # ""

\* if (!currency || !amount || !token) return;
RateGuardPasses(cur, amt, tok) ==
    cur # "" /\ amt # 0 /\ amt # AmountUnset /\ tok # ""

\* if (!currency) return;
InstGuardPasses(cur) == cur # ""

----------------------------------------------------------------------------
(* The stand-alone form component (the second module of page.tsx): the     *)
(* fields registered with useForm, their validation rules, and the submit  *)
(* button.  Amounts are in hundredths; the recipient account is a sequence *)
(* of characters, each a digit ("d") or any other character ("x").         *)

MIN_AMOUNT == 1                 \* min: { value: 0.01 }
MAX_AMOUNT == 100000000         \* max: { value: 1000000 }
ACCOUNT_DIGITS == 10            \* pattern: { value: /\d{10}/ }
ACCOUNT_MAX_LENGTH == 10        \* maxLength={10}

\* What watch() returns for a field before it is registered.
Undefined == "undefined"

tokens ==
    {[value |-> "USDC", disabled |-> FALSE], [value |-> "USDT", disabled |-> FALSE]}

currencies ==
    {[value |-> "NGN", disabled |-> FALSE], [value |-> "KES", disabled |-> TRUE],
     [value |-> "GHS", disabled |-> TRUE]}

\* The options of a select the user can pick: <option disabled={option.disabled}>
Selectable(options) == {o.value : o \in {x \in options : ~x.disabled}}

\* Object.keys(supportedInstitutions[watch("currency")] || {})
supportedInstitutions(cur) == IF cur = "NGN" THEN InstitutionCodes ELSE {}

Digits(n) == [i \in 1..n |-> "d"]

\* What the user types or pastes into the recipient account input.
AccountInputs ==
    {<<>>, Digits(5), Digits(ACCOUNT_DIGITS), Digits(ACCOUNT_DIGITS + 1),
     <<"x">> \o Digits(ACCOUNT_DIGITS), <<"x">> \o Digits(ACCOUNT_DIGITS - 1),
     Digits(ACCOUNT_DIGITS - 1) \o <<"x">>}

\* What the user types into the amount input (AmountUnset: cleared).
AmountInputs == {AmountUnset, 0, MIN_AMOUNT, 250, MAX_AMOUNT, MAX_AMOUNT + 1}

\* An input with maxLength={n} takes no more than n characters.
MaxLengthInput(s, n) == SubSeq(s, 1, Min(Len(s), n))

\* value.match(/\d{10}/): the regular expression is not anchored.
MatchesPattern(s) ==
    \E i \in 1..(Len(s) - ACCOUNT_DIGITS + 1) :
        \A j \in i..(i + ACCOUNT_DIGITS - 1) : s[j] = "d"

\* disabled: watch("token") === ""
AmountDisabled(v) == v.token = ""

\* disabled: watch("currency") === ""
RecipientBankDisabled(v) == v.currency = ""

\* Variant of AmountRulesPass without the min rule.
AmountRulesPass_NoMin(a) == a # AmountUnset /\ a <= MAX_AMOUNT

\* register("amount", { required, min: 0.01, max: 1000000 })
AmountRulesPass(a) == a # AmountUnset /\ a >= MIN_AMOUNT /\ a <= MAX_AMOUNT

\* required: { value: true }: the value is neither undefined nor ""
Required(value) == value # Undefined /\ value # ""

\* The fields whose validation fails; the rules of a disabled field are
\* not applied.
FieldErrors(v) ==
    {f \in {"token"} : ~Required(v.token)}
    \cup {f \in {"amount"} : ~AmountDisabled(v) /\ ~AmountRulesPass(v.amount)}
    \cup {f \in {"currency"} : ~Required(v.currency)}
    \cup {f \in {"recipientBank"} :
            ~RecipientBankDisabled(v) /\ ~Required(v.recipientBank)}
    \cup {f \in {"recipientAccount"} :
            v.recipientAccount = <<>> \/ ~MatchesPattern(v.recipientAccount)}
    \cup {f \in {"memo"} : ~Required(v.memo)}

\* formState.isValid
isValid(v) == FieldErrors(v) = {}

\* disabled={!isValid || !isDirty || isSubmitting}
SubmitEnabled(f) == isValid(f.values) /\ f.isDirty /\ ~f.isSubmitting

\* The first render: useForm({ mode: "onChange" }) has no default values,
\* selectedNetwork is "base".
FormInit ==
    [values |-> [network |-> "base", token |-> Undefined, amount |-> AmountUnset,
                 currency |-> Undefined, recipientBank |-> "",
                 recipientAccount |-> <<>>, memo |-> ""],
     isDirty |-> FALSE, isSubmitting |-> FALSE, submitted |-> <<>>]

----------------------------------------------------------------------------
Init ==
    /\ mounted = "init"
    /\ isPageLoading = TRUE
    /\ currency = "" /\ token = "" /\ accountIdentifier = "" /\ institution = ""
    /\ amount = AmountUnset
    /\ protocolFeeDetails = NoFeeDetails
    /\ protocolFeePercent = <<0, 1>>
    /\ fee = 0
    /\ feeEffectPending = TRUE
    /\ rate = 0
    /\ recipientName = ""
    /\ institutions = <<>>
    /\ isFetchingInstitutions = FALSE
    /\ isFetchingRate = FALSE
    /\ isFetchingRecipientName = FALSE
    /\ formValues = INITIAL_FORM_STATE
    /\ transactionStatus = "idle"
    /\ nameTimers = {} /\ rateTimers = {}
    /\ nameEffect = NameClosure(institution, accountIdentifier)
    /\ rateEffect = RateClosure(currency, amount, token)
    /\ instInFlight = <<>> /\ nameInFlight = <<>> /\ rateInFlight = <<>>
    /\ sinceCurrency = 0 /\ sinceAccount = 0
    /\ sinceInstitution = 0 /\ sinceRateDeps = 0
    /\ instBurstReqs = 0 /\ nameBurstReqs = 0 /\ rateBurstReqs = 0
    /\ nameBurstChanges = 0 /\ rateBurstChanges = 0
    /\ lastInstReq = NoInstReq /\ lastNameReq = NoNameReq /\ lastRateReq = NoRateReq
    /\ form = FormInit
    /\ lastOp = "render"

\* The effects' first run, after the first render.  The institutions effect
\* returns at its guard (currency is not set), the two debounced effects
\* start their timers, the last effect clears isPageLoading.  The fee
\* effect's first run is the first FeeEffect step.
Mount ==
    /\ mounted = "init"
    /\ mounted' = "mounted"
    /\ isPageLoading' = FALSE
    /\ nameTimers' = {NameTimer(institution, accountIdentifier)}
    /\ rateTimers' = {RateTimer(currency, amount, token)}
    /\ lastOp' = "mount"
    /\ UNCHANGED <<form, nameEffect, rateEffect, formFields, feeVars, rate, recipientName, institutions,
                   isFetchingInstitutions, isFetchingRate,
                   isFetchingRecipientName, viewVars,
                   instInFlight, nameInFlight, rateInFlight, sinceVars,
                   instHist, nameHist, rateHist>>

\* Variant of Unmount for effects that return no cleanup function.
Unmount_NoCleanup ==
    /\ mounted = "mounted"
    /\ mounted' = "unmounted"
    /\ lastOp' = "unmount"
    /\ UNCHANGED <<form, nameTimers, rateTimers,
                   nameEffect, rateEffect, isPageLoading, formFields, feeVars, rate, recipientName,
                   institutions, isFetchingInstitutions, isFetchingRate,
                   isFetchingRecipientName, viewVars,
                   instInFlight, nameInFlight, rateInFlight, sinceVars,
                   instHist, nameHist, rateHist>>

\* The effects' cleanup functions: clearTimeout(timeoutId)
Unmount ==
    /\ mounted = "mounted"
    /\ mounted' = "unmounted"
    /\ nameTimers' = CleanUp(nameTimers)
    /\ rateTimers' = CleanUp(rateTimers)
    /\ lastOp' = "unmount"
    /\ UNCHANGED <<form, nameEffect, rateEffect, isPageLoading, formFields, feeVars, rate, recipientName,
                   institutions, isFetchingInstitutions, isFetchingRate,
                   isFetchingRecipientName, viewVars,
                   instInFlight, nameInFlight, rateInFlight, sinceVars,
                   instHist, nameHist, rateHist>>

\* A change of the watched form fields to (c, a, t, ac, i) re-renders Home;
\* every effect whose dependency list changed runs its cleanup and runs
\* again.  The inputs exist only while the form view is shown.
FieldChange(c, a, t, ac, i) ==
    LET instRerun == InstEffectDeps(c) # InstEffectDeps(currency)
        nameRerun == NameEffectDeps(i, ac)
                       # NameEffectDeps(institution, accountIdentifier)
        rateRerun == RateEffectDeps(c, a, t)
                       # RateEffectDeps(currency, amount, token)
        instIssue == instRerun /\ InstGuardPasses(c)
        rateChanged == <<c, a, t>> # <<currency, amount, token>>
        instCount == IF c # currency
                     THEN BurstCount(sinceCurrency, instBurstReqs)
                     ELSE instBurstReqs
    IN  /\ mounted = "mounted"
        /\ View = "form"
        /\ NoTimerDue
        /\ <<c, a, t, ac, i>> # formFields
        /\ instIssue => Len(instInFlight) < MaxInFlight
        /\ currency' = c /\ amount' = a /\ token' = t
        /\ accountIdentifier' = ac /\ institution' = i
        \* institutions effect: getInstitutions() is called at once
        /\ isFetchingInstitutions' = (instIssue \/ isFetchingInstitutions)
        /\ instInFlight' = IF instIssue THEN Append(instInFlight, InstRequest(c))
                           ELSE instInFlight
        /\ lastInstReq' = IF instIssue THEN InstRequest(c) ELSE lastInstReq
        /\ instBurstReqs' = IF instIssue THEN Bump(instCount) ELSE instCount
        \* recipient-name effect: cleanup, then debounceFetchRecipientName()
        /\ nameTimers' = IF nameRerun
                         THEN CleanUp(nameTimers) \cup {NameTimer(i, ac)}
                         ELSE nameTimers
        /\ nameEffect' = IF nameRerun THEN NameClosure(i, ac) ELSE nameEffect
        \* rate effect: cleanup, then debounceFetchRate()
        /\ rateTimers' = IF rateRerun
                         THEN CleanUp(rateTimers) \cup {RateTimer(c, a, t)}
                         ELSE rateTimers
        /\ rateEffect' = IF rateRerun THEN RateClosure(c, a, t) ELSE rateEffect
        \* fee effect: amount is in its dependency list
        /\ feeEffectPending' = (feeEffectPending \/ a # amount)
        /\ sinceCurrency' = IF c # currency THEN 0 ELSE sinceCurrency
        /\ sinceAccount' = IF ac # accountIdentifier THEN 0 ELSE sinceAccount
        /\ sinceInstitution' = IF i # institution THEN 0 ELSE sinceInstitution
        /\ sinceRateDeps' = IF rateChanged THEN 0 ELSE sinceRateDeps
        /\ nameBurstReqs' = IF ac # accountIdentifier
                            THEN BurstCount(sinceAccount, nameBurstReqs)
                            ELSE nameBurstReqs
        /\ nameBurstChanges' =
              IF ac # accountIdentifier
              THEN Bump(BurstCount(sinceAccount, nameBurstChanges))
              ELSE nameBurstChanges
        /\ rateBurstReqs' = IF rateChanged
                            THEN BurstCount(sinceRateDeps, rateBurstReqs)
                            ELSE rateBurstReqs
        /\ rateBurstChanges' =
              IF rateChanged
              THEN Bump(BurstCount(sinceRateDeps, rateBurstChanges))
              ELSE rateBurstChanges
        /\ lastOp' = "change"
        /\ UNCHANGED <<form, mounted, isPageLoading, protocolFeeDetails,
                       protocolFeePercent, fee, rate, recipientName,
                       institutions, isFetchingRate, isFetchingRecipientName,
                       viewVars, nameInFlight, rateInFlight,
                       lastNameReq, lastRateReq>>

ChangeCurrency(c) ==
    FieldChange(c, amount, token, accountIdentifier, institution)
ChangeAmount(a) ==
    FieldChange(currency, a, token, accountIdentifier, institution)
ChangeToken(t) ==
    FieldChange(currency, amount, t, accountIdentifier, institution)
ChangeAccountIdentifier(ac) ==
    FieldChange(currency, amount, token, ac, institution)
ChangeInstitution(i) ==
    FieldChange(currency, amount, token, accountIdentifier, i)

\* Time passes; a due timer's callback runs before time passes further.
Tick(d) ==
    /\ mounted # "init"
    /\ \A t \in nameTimers \cup rateTimers : t.remaining >= d
    /\ nameTimers' = Elapse(nameTimers, d)
    /\ rateTimers' = Elapse(rateTimers, d)
    /\ sinceCurrency' = Min(sinceCurrency + d, DEBOUNCE_MS)
    /\ sinceAccount' = Min(sinceAccount + d, DEBOUNCE_MS)
    /\ sinceInstitution' = Min(sinceInstitution + d, DEBOUNCE_MS)
    /\ sinceRateDeps' = Min(sinceRateDeps + d, DEBOUNCE_MS)
    /\ lastOp' = "tick"
    /\ UNCHANGED <<form, nameEffect, rateEffect, mounted, isPageLoading, formFields, feeVars, rate,
                   recipientName, institutions, isFetchingInstitutions,
                   isFetchingRate, isFetchingRecipientName, viewVars,
                   instInFlight, nameInFlight, rateInFlight,
                   instHist, nameHist, rateHist>>

----------------------------------------------------------------------------
(* Recipient-name fetcher *)

\* A due timer's callback getRecipientName, up to its await.  A timer that
\* was not cleared fires whether or not the component is still mounted.
NameTimerFire ==
    \E t \in nameTimers :
      LET issue == NameGuardPasses(t.closure.institution,
                                   t.closure.accountIdentifier)
          req == NameRequest(t.closure.institution,
                             t.closure.accountIdentifier)
      IN  /\ t.remaining = 0
          /\ issue => Len(nameInFlight) < MaxInFlight
          /\ nameTimers' = nameTimers \ {t}
          /\ isFetchingRecipientName' = (issue \/ isFetchingRecipientName)
          /\ nameInFlight' = IF issue THEN Append(nameInFlight, req)
                             ELSE nameInFlight
          /\ lastNameReq' = IF issue THEN req ELSE lastNameReq
          /\ nameBurstReqs' = IF issue THEN Bump(nameBurstReqs)
                              ELSE nameBurstReqs
          /\ lastOp' = "nameTimer"
          /\ UNCHANGED <<form, mounted, isPageLoading, formFields, feeVars, rate,
                         recipientName, institutions, isFetchingInstitutions,
                         isFetchingRate, viewVars, nameEffect, rateEffectVars,
                         instInFlight, rateInFlight, sinceVars, instHist,
                         nameBurstChanges, rateHist>>

\* getRecipientName after the await: the try branch
NameSuccess(k) ==
    /\ k \in 1..Len(nameInFlight)
    /\ recipientName' = AccountNameOf(nameInFlight[k])
    /\ isFetchingRecipientName' = FALSE
    /\ nameInFlight' = Remove(nameInFlight, k)
    /\ lastOp' = "nameSuccess"
    /\ UNCHANGED <<form, mounted, isPageLoading, formFields, feeVars, rate,
                   institutions, isFetchingInstitutions, isFetchingRate,
                   viewVars, nameEffectVars, rateEffectVars, instInFlight, rateInFlight,
                   sinceVars, instHist, nameHist, rateHist>>

\* Variant of NameFailure whose catch branch only clears the flag.
NameFailure_KeepsName(k) ==
    /\ k \in 1..Len(nameInFlight)
    /\ isFetchingRecipientName' = FALSE
    /\ nameInFlight' = Remove(nameInFlight, k)
    /\ lastOp' = "nameFailure"
    /\ UNCHANGED <<form, mounted, isPageLoading, formFields, feeVars, rate,
                   recipientName, institutions, isFetchingInstitutions,
                   isFetchingRate, viewVars, nameEffectVars, rateEffectVars,
                   instInFlight, rateInFlight, sinceVars, instHist, nameHist,
                   rateHist>>

\* getRecipientName after the await: the catch branch
NameFailure(k) ==
    /\ k \in 1..Len(nameInFlight)
    /\ recipientName' = ""
    /\ isFetchingRecipientName' = FALSE
    /\ nameInFlight' = Remove(nameInFlight, k)
    /\ lastOp' = "nameFailure"
    /\ UNCHANGED <<form, mounted, isPageLoading, formFields, feeVars, rate,
                   institutions, isFetchingInstitutions, isFetchingRate,
                   viewVars, nameEffectVars, rateEffectVars, instInFlight, rateInFlight,
                   sinceVars, instHist, nameHist, rateHist>>

----------------------------------------------------------------------------
(* Rate fetcher *)

\* A due timer's callback getRate, up to its await.
RateTimerFire ==
    \E t \in rateTimers :
      LET issue == RateGuardPasses(t.closure.currency, t.closure.amount,
                                   t.closure.token)
          req == RateRequest(t.closure.currency, t.closure.amount,
                             t.closure.token)
      IN  /\ t.remaining = 0
          /\ issue => Len(rateInFlight) < MaxInFlight
          /\ rateTimers' = rateTimers \ {t}
          /\ isFetchingRate' = (issue \/ isFetchingRate)
          /\ rateInFlight' = IF issue THEN Append(rateInFlight, req)
                             ELSE rateInFlight
          /\ lastRateReq' = IF issue THEN req ELSE lastRateReq
          /\ rateBurstReqs' = IF issue THEN Bump(rateBurstReqs)
                              ELSE rateBurstReqs
          /\ lastOp' = "rateTimer"
          /\ UNCHANGED <<form, mounted, isPageLoading, formFields, feeVars, rate,
                         recipientName, institutions, isFetchingInstitutions,
                         isFetchingRecipientName, viewVars, rateEffect,
                         nameEffectVars, instInFlight, nameInFlight,
                         sinceVars, instHist, nameHist, rateBurstChanges>>

\* getRate after the await: the try branch
RateSuccess(k) ==
    /\ k \in 1..Len(rateInFlight)
    /\ rate' = RateOf(rateInFlight[k])
    /\ isFetchingRate' = FALSE
    /\ rateInFlight' = Remove(rateInFlight, k)
    /\ lastOp' = "rateSuccess"
    /\ UNCHANGED <<form, mounted, isPageLoading, formFields, feeVars, recipientName,
                   institutions, isFetchingInstitutions,
                   isFetchingRecipientName, viewVars, nameEffectVars, rateEffectVars,
                   instInFlight, nameInFlight, sinceVars, instHist, nameHist,
                   rateHist>>

\* Variant of RateFailure whose catch branch also resets the rate.
RateFailure_ResetsRate(k) ==
    /\ k \in 1..Len(rateInFlight)
    /\ rate' = 0
    /\ rateInFlight' = Remove(rateInFlight, k)
    /\ lastOp' = "rateFailure"
    /\ UNCHANGED <<form, mounted, isPageLoading, formFields, feeVars,
                   recipientName, institutions, isFetchingInstitutions,
                   isFetchingRate, isFetchingRecipientName, viewVars,
                   nameEffectVars, rateEffectVars, instInFlight, nameInFlight,
                   sinceVars, instHist, nameHist, rateHist>>

\* getRate after the await: the catch branch, console.log(error)
RateFailure(k) ==
    /\ k \in 1..Len(rateInFlight)
    /\ rateInFlight' = Remove(rateInFlight, k)
    /\ lastOp' = "rateFailure"
    /\ UNCHANGED <<form, mounted, isPageLoading, formFields, feeVars, rate,
                   recipientName, institutions, isFetchingInstitutions,
                   isFetchingRate, isFetchingRecipientName, viewVars,
                   nameEffectVars, rateEffectVars, instInFlight, nameInFlight,
                   sinceVars, instHist, nameHist, rateHist>>

----------------------------------------------------------------------------
(* Institutions fetcher *)

\* Variant of InstSuccess that also clears the recipient name when the
\* list of institutions is replaced.
InstSuccess_ClearsRecipient(k) ==
    /\ k \in 1..Len(instInFlight)
    /\ institutions' = InstitutionsOf(instInFlight[k])
    /\ isFetchingInstitutions' = FALSE
    /\ recipientName' = ""
    /\ instInFlight' = Remove(instInFlight, k)
    /\ lastOp' = "instSuccess"
    /\ UNCHANGED <<form, mounted, isPageLoading, formFields, feeVars, rate,
                   isFetchingRate, isFetchingRecipientName, viewVars,
                   nameEffectVars, rateEffectVars, nameInFlight, rateInFlight,
                   sinceVars, instHist, nameHist, rateHist>>

\* getInstitutions after the await: the try branch
InstSuccess(k) ==
    /\ k \in 1..Len(instInFlight)
    /\ institutions' = InstitutionsOf(instInFlight[k])
    /\ isFetchingInstitutions' = FALSE
    /\ instInFlight' = Remove(instInFlight, k)
    /\ lastOp' = "instSuccess"
    /\ UNCHANGED <<form, mounted, isPageLoading, formFields, feeVars, rate,
                   recipientName, isFetchingRate, isFetchingRecipientName,
                   viewVars, nameEffectVars, rateEffectVars, nameInFlight, rateInFlight,
                   sinceVars, instHist, nameHist, rateHist>>

\* getInstitutions after the await: the catch branch, console.log(error)
InstFailure(k) ==
    /\ k \in 1..Len(instInFlight)
    /\ instInFlight' = Remove(instInFlight, k)
    /\ lastOp' = "instFailure"
    /\ UNCHANGED <<form, mounted, isPageLoading, formFields, feeVars, rate,
                   recipientName, institutions, isFetchingInstitutions,
                   isFetchingRate, isFetchingRecipientName, viewVars,
                   nameEffectVars, rateEffectVars, nameInFlight, rateInFlight,
                   sinceVars, instHist, nameHist, rateHist>>

----------------------------------------------------------------------------
(* Fee *)

\* useReadContract delivers (or refreshes) the fee ratio.
FeeDetailsLoaded(r) ==
    /\ mounted = "mounted"
    /\ r # protocolFeeDetails
    /\ protocolFeeDetails' = r
    /\ feeEffectPending' = TRUE
    /\ lastOp' = "feeDetails"
    /\ UNCHANGED <<form, mounted, isPageLoading, formFields, protocolFeePercent, fee,
                   rate, recipientName, institutions, isFetchingInstitutions,
                   isFetchingRate, isFetchingRecipientName, viewVars,
                   nameEffectVars, rateEffectVars, instInFlight, nameInFlight,
                   rateInFlight, sinceVars, instHist, nameHist, rateHist>>

\* One run of the fee effect: both setters are called with values computed
\* from this render's state.
FeeEffect ==
    /\ mounted = "mounted"
    /\ feeEffectPending
    /\ protocolFeePercent' = FeePercentOf(protocolFeeDetails)
    /\ fee' = FeeOf(protocolFeePercent, amount)
    /\ feeEffectPending' =
          FeeEffectRerun(protocolFeePercent, FeePercentOf(protocolFeeDetails))
    /\ lastOp' = "feeEffect"
    /\ UNCHANGED <<form, mounted, isPageLoading, formFields, protocolFeeDetails,
                   rate, recipientName, institutions, isFetchingInstitutions,
                   isFetchingRate, isFetchingRecipientName, viewVars,
                   nameEffectVars, rateEffectVars, instInFlight, nameInFlight,
                   rateInFlight, sinceVars, instHist, nameHist, rateHist>>

----------------------------------------------------------------------------
(* Submit, back, and the status view's callbacks *)

\* What handleSubmit passes to onSubmit: the form's current values.
FormData(net, memo) ==
    [network |-> net, token |-> token, amount |-> amount,
     currency |-> currency, institution |-> institution,
     accountIdentifier |-> accountIdentifier, recipientName |-> "",
     memo |-> memo]

viewFrame == <<form, mounted, isPageLoading, formFields, feeVars, rate,
               recipientName, institutions, isFetchingInstitutions,
               isFetchingRate, isFetchingRecipientName, nameEffectVars, rateEffectVars,
               instInFlight, nameInFlight, rateInFlight, sinceVars, instHist,
               nameHist, rateHist>>

onSubmit(data) ==
    /\ mounted = "mounted"
    /\ View = "form"
    /\ formValues' = data
    /\ lastOp' = "submit"
    /\ UNCHANGED <<transactionStatus, viewFrame>>

\* Variant of handleBackButtonClick that keeps the selected network.
handleBackButtonClick_KeepsNetwork ==
    /\ mounted = "mounted"
    /\ View = "preview"
    /\ formValues' = [INITIAL_FORM_STATE EXCEPT !.network = formValues.network]
    /\ lastOp' = "back"
    /\ UNCHANGED <<transactionStatus, viewFrame>>

\* handleBackButtonClick={() => setFormValues(INITIAL_FORM_STATE)}
handleBackButtonClick ==
    /\ mounted = "mounted"
    /\ View = "preview"
    /\ formValues' = INITIAL_FORM_STATE
    /\ lastOp' = "back"
    /\ UNCHANGED <<transactionStatus, viewFrame>>

clearForm ==
    /\ mounted = "mounted"
    /\ View = "status"
    /\ formValues' = INITIAL_FORM_STATE
    /\ lastOp' = "clearForm"
    /\ UNCHANGED <<transactionStatus, viewFrame>>

\* Variant of clearTransactionStatus that also resets formValues.
clearTransactionStatus_ClearsForm ==
    /\ mounted = "mounted"
    /\ View = "status"
    /\ transactionStatus' = "idle"
    /\ formValues' = INITIAL_FORM_STATE
    /\ lastOp' = "clearTransactionStatus"
    /\ UNCHANGED viewFrame

\* clearTransactionStatus={() => { setTransactionStatus("idle"); }}
clearTransactionStatus ==
    /\ mounted = "mounted"
    /\ View = "status"
    /\ transactionStatus' = "idle"
    /\ lastOp' = "clearTransactionStatus"
    /\ UNCHANGED <<formValues, viewFrame>>

\* The children call setTransactionStatus as the order progresses.
setTransactionStatus(s) ==
    /\ mounted = "mounted"
    /\ s # transactionStatus
    /\ transactionStatus' = s
    /\ lastOp' = "setTransactionStatus"
    /\ UNCHANGED <<formValues, viewFrame>>

----------------------------------------------------------------------------
(* The stand-alone form component: its handlers *)

homeVars == <<mounted, isPageLoading, formFields, feeVars, rate,
              recipientName, institutions, isFetchingInstitutions,
              isFetchingRate, isFetchingRecipientName, viewVars,
              nameEffectVars, rateEffectVars,
              instInFlight, nameInFlight, rateInFlight, sinceVars, instHist,
              nameHist, rateHist>>

\* The selects are registered: each takes the value of its element, "" for
\* the hidden placeholder option.
FormMount ==
    /\ form.values.token = Undefined
    /\ form' = [form EXCEPT !.values.token = "", !.values.currency = ""]
    /\ lastOp' = "formMount"
    /\ UNCHANGED homeVars

\* The user changes one field of the form to a value its input allows.
FormChange(values) ==
    /\ form.values.token # Undefined
    /\ values # form.values
    /\ form' = [form EXCEPT !.values = values, !.isDirty = TRUE]
    /\ lastOp' = "formChange"
    /\ UNCHANGED homeVars

SelectToken(t) ==
    /\ t \in Selectable(tokens)
    /\ FormChange([form.values EXCEPT !.token = t])

ChangeFormAmount(a) ==
    /\ ~AmountDisabled(form.values)
    /\ FormChange([form.values EXCEPT !.amount = a])

SelectCurrency(c) ==
    /\ c \in Selectable(currencies)
    /\ FormChange([form.values EXCEPT !.currency = c])

SelectRecipientBank(b) ==
    /\ ~RecipientBankDisabled(form.values)
    /\ b \in supportedInstitutions(form.values.currency)
    /\ FormChange([form.values EXCEPT !.recipientBank = b])

ChangeRecipientAccount(s) ==
    FormChange([form.values EXCEPT
                  !.recipientAccount = MaxLengthInput(s, ACCOUNT_MAX_LENGTH)])

ChangeMemo(m) == FormChange([form.values EXCEPT !.memo = m])

\* A click on the submit button: the form's submit event starts
\* handleSubmit, which sets isSubmitting.
SubmitButtonClick ==
    /\ SubmitEnabled(form)
    /\ form' = [form EXCEPT !.isSubmitting = TRUE]
    /\ lastOp' = "formSubmitClick"
    /\ UNCHANGED homeVars

\* handleSubmit(onSubmit): the fields are validated, onSubmit(data) is
\* called when none has an error, isSubmitting is cleared.
handleSubmit ==
    /\ form.isSubmitting
    /\ form' = [form EXCEPT
                  !.isSubmitting = FALSE,
                  !.submitted = IF isValid(form.values) THEN <<form.values>>
                                ELSE @]
    /\ lastOp' = IF isValid(form.values) THEN "formOnSubmit" ELSE "formInvalid"
    /\ UNCHANGED homeVars

NextForm ==
    \/ FormMount
    \/ \E t \in {o.value : o \in tokens} : SelectToken(t)
    \/ \E a \in AmountInputs : ChangeFormAmount(a)
    \/ \E c \in {o.value : o \in currencies} : SelectCurrency(c)
    \/ \E b \in InstitutionCodes : SelectRecipientBank(b)
    \/ \E s \in AccountInputs : ChangeRecipientAccount(s)
    \/ \E m \in Memos \cup {""} : ChangeMemo(m)
    \/ SubmitButtonClick
    \/ handleSubmit

SpecForm == Init /\ [][NextForm]_vars

----------------------------------------------------------------------------
(* The whole page: every handler, each input drawn from one value. *)

Responses ==
    \/ \E k \in 1..MaxInFlight : NameSuccess(k)
    \/ \E k \in 1..MaxInFlight : NameFailure(k)
    \/ \E k \in 1..MaxInFlight : RateSuccess(k)
    \/ \E k \in 1..MaxInFlight : RateFailure(k)
    \/ \E k \in 1..MaxInFlight : InstSuccess(k)
    \/ \E k \in 1..MaxInFlight : InstFailure(k)

Next ==
    \/ Mount
    \/ ChangeCurrency("NGN")
    \/ ChangeAmount(250)
    \/ ChangeToken("USDC")
    \/ ChangeAccountIdentifier("0123456789")
    \/ ChangeInstitution("GTB")
    \/ Tick(DEBOUNCE_MS)
    \/ NameTimerFire
    \/ RateTimerFire
    \/ Responses
    \/ FeeDetailsLoaded(<<1, 3>>)
    \/ FeeEffect
    \/ \E m \in Memos \cup {""} : onSubmit(FormData("base", m))
    \/ handleBackButtonClick
    \/ clearForm
    \/ clearTransactionStatus
    \/ \E s \in {"idle", "pending", "settled"} : setTransactionStatus(s)

Spec == Init /\ [][Next]_vars

----------------------------------------------------------------------------
(* The recipient-name fetcher alone: every order and timing of changes to  *)
(* accountIdentifier and institution, every order of responses.            *)

NextName ==
    \/ Mount
    \/ \E ac \in AccountIdentifiers \cup {""} : ChangeAccountIdentifier(ac)
    \/ \E i \in InstitutionCodes \cup {""} : ChangeInstitution(i)
    \/ \E d \in TickSteps : Tick(d)
    \/ NameTimerFire
    \/ RateTimerFire
    \/ \E k \in 1..MaxInFlight : NameSuccess(k)
    \/ \E k \in 1..MaxInFlight : NameFailure(k)

SpecName == Init /\ [][NextName]_vars

(* The rate fetcher: every order and timing of changes to amount and token *)
(* around the selection of the currency (which also issues an institutions *)
(* request), every order of responses.                                     *)

NextRate ==
    \/ Mount
    \/ ChangeCurrency("NGN")
    \/ \E a \in Amounts : ChangeAmount(a)
    \/ \E t \in Tokens \cup {""} : ChangeToken(t)
    \/ \E d \in TickSteps : Tick(d)
    \/ NameTimerFire
    \/ RateTimerFire
    \/ \E k \in 1..MaxInFlight : RateSuccess(k)
    \/ \E k \in 1..MaxInFlight : RateFailure(k)
    \/ \E k \in 1..MaxInFlight : InstSuccess(k)

SpecRate == Init /\ [][NextRate]_vars

NextInst ==
    \/ Mount
    \/ \E c \in Currencies \cup {""} : ChangeCurrency(c)
    \/ \E d \in TickSteps : Tick(d)
    \/ NameTimerFire
    \/ RateTimerFire
    \/ \E k \in 1..MaxInFlight : InstSuccess(k)
    \/ \E k \in 1..MaxInFlight : InstFailure(k)

SpecInst == Init /\ [][NextInst]_vars

(* The fee effect: every order of amount changes, fee-ratio deliveries and *)
(* effect runs.                                                            *)

NextFee ==
    \/ Mount
    \/ \E a \in Amounts : ChangeAmount(a)
    \/ \E r \in FeeRatios : FeeDetailsLoaded(r)
    \/ FeeEffect

SpecFee == Init /\ [][NextFee]_vars

(* Failing fetches: the currency is changed back and forth with amount and *)
(* token set, so that institutions and rate requests follow one another    *)
(* and fail after earlier ones have succeeded.                             *)

NextFail ==
    \/ Mount
    \/ \E c \in Currencies : ChangeCurrency(c)
    \/ ChangeAmount(250)
    \/ ChangeToken("USDC")
    \/ Tick(DEBOUNCE_MS)
    \/ NameTimerFire
    \/ RateTimerFire
    \/ \E k \in 1..MaxInFlight : InstSuccess(k)
    \/ \E k \in 1..MaxInFlight : InstFailure(k)
    \/ \E k \in 1..MaxInFlight : RateSuccess(k)
    \/ \E k \in 1..MaxInFlight : RateFailure(k)

SpecFail == Init /\ [][NextFail]_vars

(* The component's life: it is unmounted at any moment, with timers        *)
(* pending and requests in flight.                                         *)

NextLife ==
    \/ Mount
    \/ Unmount
    \/ ChangeCurrency("NGN")
    \/ ChangeAmount(250)
    \/ ChangeToken("USDC")
    \/ ChangeAccountIdentifier("0123456789")
    \/ ChangeInstitution("GTB")
    \/ \E d \in TickSteps : Tick(d)
    \/ NameTimerFire
    \/ RateTimerFire
    \/ Responses

SpecLife == Init /\ [][NextLife]_vars

(* The order of responses: every request succeeds, the currency is changed *)
(* back and forth so that institutions requests, and rate requests,        *)
(* overlap, and their responses arrive in any order.                       *)

NextOrder ==
    \/ Mount
    \/ \E c \in Currencies : ChangeCurrency(c)
    \/ ChangeAmount(250)
    \/ ChangeToken("USDC")
    \/ ChangeAccountIdentifier("0123456789")
    \/ ChangeInstitution("GTB")
    \/ Tick(DEBOUNCE_MS)
    \/ NameTimerFire
    \/ RateTimerFire
    \/ \E k \in 1..MaxInFlight : InstSuccess(k)
    \/ \E k \in 1..MaxInFlight : NameSuccess(k)
    \/ \E k \in 1..MaxInFlight : RateSuccess(k)

SpecOrder == Init /\ [][NextOrder]_vars

----------------------------------------------------------------------------
(* Properties *)

AnyFetching ==
    isFetchingInstitutions \/ isFetchingRate \/ isFetchingRecipientName

\* C1: in every reachable state, when transactionStatus is not "idle" the
\* status view is the one rendered, whatever formValues, the fetch flags,
\* rate, fee and recipientName are.
C1_StatusView == transactionStatus # "idle" => View = "status"

\* A non-idle status over a submitted (non-empty) form, with a fetch in
\* flight and a recipient name and a rate already fetched.
C1_Witness ==
    /\ transactionStatus # "idle"
    /\ formValues # INITIAL_FORM_STATE
    /\ AnyFetching
    /\ recipientName # ""
    /\ rate # 0
    /\ View = "status"

\* C2: formValues counts as empty iff every field is "" or 0 (that is, iff
\* it equals INITIAL_FORM_STATE field by field); the preview view is
\* rendered iff formValues is not empty and transactionStatus is "idle", the
\* form view iff formValues is empty and transactionStatus is "idle".
C2_FormOrPreview ==
    /\ FormIsEmpty(formValues)
         <=> (\A f \in StringFields : formValues[f] = "") /\ formValues.amount = 0
    /\ FormIsEmpty(formValues) <=> formValues = INITIAL_FORM_STATE
    /\ View = "preview"
         <=> (formValues # INITIAL_FORM_STATE /\ transactionStatus = "idle")
    /\ View = "form"
         <=> (formValues = INITIAL_FORM_STATE /\ transactionStatus = "idle")

\* The preview of a partly filled form: some fields set, others still "".
C2_Witness ==
    /\ View = "preview"
    /\ transactionStatus = "idle"
    /\ formValues.currency # ""
    /\ formValues.accountIdentifier = ""
    /\ lastOp = "submit"

\* C3: for every amount > 0 and every fee ratio num/den in [0, 1], once no
\* run of the fee effect is pending, fee is feePercent * amount rounded to 5
\* decimals: fee (in units of 10^-5) is the integer nearest to
\* amount * 10^3 * num / den, for the current amount and the current ratio.
C3_FeeAtFixedPoint ==
    LET num == protocolFeeDetails[1]
        den == protocolFeeDetails[2]
        exact == amount * Pow10(FEE_DECIMALS - AMOUNT_DECIMALS) * num
    IN  (/\ ~feeEffectPending
         /\ amount > 0
         /\ den > 0 /\ 0 <= num /\ num <= den)
        => /\ fee >= 0
           /\ 2 * (fee * den - exact) <= den
           /\ 2 * (exact - fee * den) < den

\* 2.50 at 2/3 is 1.66667 (rounded up), reached by a run of the effect.
C3_Witness ==
    /\ ~feeEffectPending
    /\ amount = 250
    /\ protocolFeeDetails = <<2, 3>>
    /\ fee = 166667
    /\ lastOp = "feeEffect"

\* C4: the institutions request is issued at most once per 1000ms-quiescent
\* window: no request is issued before 1000 ms have passed since the last
\* change of currency, and a burst of currency changes closer than 1000 ms
\* apart issues at most one request.
C4_InstitutionsDebounced ==
    /\ instBurstReqs > 0 => sinceCurrency >= DEBOUNCE_MS
    /\ instBurstReqs <= 1

Quiescent(since, timers) ==
    mounted = "mounted" /\ since >= DEBOUNCE_MS /\ timers = {}

\* C5 as stated: with institution non-empty, any burst of accountIdentifier
\* changes less than 1000 ms apart issues exactly one recipient-name
\* request, carrying the last accountIdentifier value.
C5_ExactlyOnePerBurst ==
    (/\ Quiescent(sinceAccount, nameTimers)
     /\ nameBurstChanges >= 1
     /\ institution # "" /\ nameEffect.institution # "")
    => /\ nameBurstReqs = 1
       /\ lastNameReq.accountIdentifier = accountIdentifier

\* C5 as amended: with institution non-empty, a burst of accountIdentifier
\* changes less than 1000 ms apart issues no request before 1000 ms have
\* passed since its last change (so none for an intermediate value), at
\* most one request in all, and exactly one, carrying the last value, when
\* the last value is not empty.  The one pending timer is due exactly
\* 1000 ms after the last change.
C5_OnePerBurstWhenSet ==
    /\ sinceAccount < DEBOUNCE_MS => nameBurstReqs = 0
    /\ nameBurstReqs <= 1
    /\ \A t \in nameTimers : t.remaining + sinceAccount = DEBOUNCE_MS
    /\ nameBurstReqs = 1
         => lastNameReq = NameRequest(nameEffect.institution, accountIdentifier)
    /\ (/\ Quiescent(sinceAccount, nameTimers)
        /\ nameBurstChanges >= 1
        /\ institution # "" /\ nameEffect.institution # "")
       => nameBurstReqs = (IF accountIdentifier # "" THEN 1 ELSE 0)

\* A burst of two changes has ended, with the institution selected before
\* it, in one request for the last value.
C5_Witness ==
    /\ Quiescent(sinceAccount, nameTimers)
    /\ nameBurstChanges = 2
    /\ nameBurstReqs = 1
    /\ institution # "" /\ nameEffect.institution = institution
    /\ lastNameReq = NameRequest(institution, accountIdentifier)
    /\ lastOp = "nameTimer"

\* C6: a failed recipient-name request sets recipientName to "" and
\* isFetchingRecipientName to false, and changes none of rate,
\* institutions, fee, formValues, transactionStatus (nor the other flags).
C6_NameFailure ==
    [][lastOp' = "nameFailure"
         => /\ recipientName' = ""
            /\ isFetchingRecipientName' = FALSE
            /\ UNCHANGED <<rate, institutions, fee, formValues,
                           transactionStatus, isFetchingRate,
                           isFetchingInstitutions>>]_vars

\* A failure has arrived for the only request in flight.
C6_Witness ==
    /\ lastOp = "nameFailure"
    /\ recipientName = ""
    /\ ~isFetchingRecipientName
    /\ lastNameReq.issued
    /\ nameInFlight = <<>>

\* C7: whenever institution and accountIdentifier are both non-empty and
\* neither has changed for 1000 ms, a recipient-name request for exactly
\* that pair has been issued (it is the most recent one), in whichever
\* order the two fields were filled in or last changed.
C7_NameFollowsBothInputs ==
    (/\ Quiescent(sinceAccount, nameTimers)
     /\ sinceInstitution >= DEBOUNCE_MS
     /\ institution # "" /\ accountIdentifier # "")
    => lastNameReq = NameRequest(institution, accountIdentifier)

\* C8: every change to currency, amount or token cancels the pending rate
\* timer and schedules a new one: at most one rate timer is pending, it is
\* the one set by the latest change (due 1000 ms after it, holding the
\* current values); no request is issued before 1000 ms have passed since
\* the last change; a burst issues at most one request, and exactly one
\* when currency, amount and token are all set.
C8_RateDebounce ==
    /\ Cardinality(rateTimers) <= 1
    /\ \A t \in rateTimers :
          /\ t.latest
          /\ t.closure = RateClosure(currency, amount, token)
          /\ t.remaining + sinceRateDeps = DEBOUNCE_MS
    /\ sinceRateDeps < DEBOUNCE_MS => rateBurstReqs = 0
    /\ rateBurstReqs <= 1
    /\ (Quiescent(sinceRateDeps, rateTimers) /\ rateBurstChanges >= 1)
       => rateBurstReqs =
            (IF RateGuardPasses(currency, amount, token) THEN 1 ELSE 0)

\* A burst of two changes has ended in one request.
C8_Witness ==
    /\ Quiescent(sinceRateDeps, rateTimers)
    /\ rateBurstChanges = 2
    /\ rateBurstReqs = 1
    /\ lastRateReq.amount = amount /\ lastRateReq.currency = currency
    /\ lastOp = "rateTimer"

\* C9: when the rate timer fires with currency, amount and token all set,
\* the request issued carries the form's token, amount and currency.
C9_RateRequestCarriesForm ==
    [][(lastOp' = "rateTimer" /\ Len(rateInFlight') > Len(rateInFlight))
         => LET req == rateInFlight'[Len(rateInFlight')]
            IN  /\ req.token = token
                /\ req.amount = amount
                /\ req.currency = currency]_vars

Range(seq) == {seq[k] : k \in 1..Len(seq)}

InstitutionsStep ==
    \/ lastOp' \in {"instSuccess", "instFailure"}
    \/ lastOp' = "change" /\ Len(instInFlight') > Len(instInFlight)

RecipientNameStep ==
    \/ lastOp' \in {"nameSuccess", "nameFailure"}
    \/ lastOp' = "nameTimer" /\ Len(nameInFlight') > Len(nameInFlight)

RateStep ==
    \/ lastOp' \in {"rateSuccess", "rateFailure"}
    \/ lastOp' = "rateTimer" /\ Len(rateInFlight') > Len(rateInFlight)

otherState == <<formValues, transactionStatus, fee, protocolFeePercent,
                isPageLoading>>

\* C10: the start, success or failure of an institutions fetch changes only
\* institutions and isFetchingInstitutions, of a recipient-name fetch only
\* recipientName and isFetchingRecipientName, of a rate fetch only rate and
\* isFetchingRate; none changes formValues, transactionStatus or fee.  What
\* a response writes is determined by its own request alone, so responses
\* of different fetchers commute.
C10_DisjointSlots ==
    [][/\ InstitutionsStep => UNCHANGED <<nameSlots, rateSlots, otherState>>
       /\ RecipientNameStep => UNCHANGED <<instSlots, rateSlots, otherState>>
       /\ RateStep => UNCHANGED <<instSlots, nameSlots, otherState>>
       /\ lastOp' = "instSuccess"
            => institutions' \in {InstitutionsOf(r) : r \in Range(instInFlight)}
       /\ lastOp' = "nameSuccess"
            => recipientName' \in {AccountNameOf(r) : r \in Range(nameInFlight)}
       /\ lastOp' = "rateSuccess"
            => rate' \in {RateOf(r) : r \in Range(rateInFlight)}]_vars

\* An institutions response has arrived while a recipient-name request and
\* a rate request are in flight, over a submitted form with a status set
\* and a fee computed; the name and rate fetched earlier are kept.
C10_Witness ==
    /\ lastOp = "instSuccess"
    /\ institutions # <<>>
    /\ nameInFlight # <<>> /\ isFetchingRecipientName
    /\ rateInFlight # <<>> /\ isFetchingRate
    /\ formValues # INITIAL_FORM_STATE
    /\ transactionStatus # "idle"
    /\ fee > 0

NoneInFlight ==
    instInFlight = <<>> /\ nameInFlight = <<>> /\ rateInFlight = <<>>

\* C11: for any sequence of input changes and of request successes and
\* failures, once every in-flight request has completed (successfully or
\* with failure), isFetchingInstitutions, isFetchingRate and
\* isFetchingRecipientName are all false.
C11_FlagsClearWhenSettled == NoneInFlight => ~AnyFetching

\* C12: a failed institutions fetch or a failed rate fetch is only logged:
\* the failure writes no state, so institutions, respectively rate, keeps
\* its value (and the flags theirs), and recipientName, fee, formValues and
\* transactionStatus are unchanged.
C12_FailureOnlyLogged ==
    [][lastOp' \in {"instFailure", "rateFailure"}
         => UNCHANGED <<institutions, rate, recipientName, fee, formValues,
                        transactionStatus, isFetchingInstitutions,
                        isFetchingRate, isFetchingRecipientName>>]_vars

\* A rate request has failed after an earlier one had succeeded, with a
\* list of institutions fetched: the rate and the list are kept.
C12_Witness ==
    /\ lastOp = "rateFailure"
    /\ rate # 0
    /\ institutions # <<>>
    /\ rateInFlight = <<>>

inFlight == <<instInFlight, nameInFlight, rateInFlight>>

\* C13: on unmount the only cancellation is timer clearing.  Unmounting
\* clears the pending timers of the recipient-name and rate effects and
\* leaves the requests in flight alone; after it no timer fires and no
\* request is issued, while each response of a request that was in flight
\* still performs its state write.
C13_UnmountClearsTimersOnly ==
    [][/\ lastOp' = "unmount"
            => /\ nameTimers' = {} /\ rateTimers' = {}
               /\ UNCHANGED <<inFlight, instSlots, nameSlots, rateSlots>>
       /\ mounted = "unmounted"
            => /\ lastOp' \notin {"nameTimer", "rateTimer", "change"}
               /\ Len(instInFlight') <= Len(instInFlight)
               /\ Len(nameInFlight') <= Len(nameInFlight)
               /\ Len(rateInFlight') <= Len(rateInFlight)
               /\ lastOp' = "instSuccess"
                    => /\ institutions'
                            \in {InstitutionsOf(r) : r \in Range(instInFlight)}
                       /\ ~isFetchingInstitutions'
               /\ lastOp' = "nameSuccess"
                    => /\ recipientName'
                            \in {AccountNameOf(r) : r \in Range(nameInFlight)}
                       /\ ~isFetchingRecipientName'
               /\ lastOp' = "nameFailure"
                    => recipientName' = "" /\ ~isFetchingRecipientName'
               /\ lastOp' = "rateSuccess"
                    => /\ rate' \in {RateOf(r) : r \in Range(rateInFlight)}
                       /\ ~isFetchingRate']_vars

\* The component was unmounted with a recipient-name timer pending (the
\* account had just been typed) and a rate request in flight: the timer's
\* request was never issued, the rate response has written the rate.
C13_Witness ==
    /\ mounted = "unmounted"
    /\ lastOp = "rateSuccess"
    /\ rate # 0 /\ ~isFetchingRate
    /\ accountIdentifier # "" /\ institution # ""
    /\ ~lastNameReq.issued
    /\ nameTimers = {}
    /\ sinceAccount >= DEBOUNCE_MS

\* C14: last request wins: for each fetcher, for every sequence of requests
\* and every order in which their responses arrive, once all its requests
\* in flight have completed, the state slot (rate, recipientName,
\* institutions) holds the result of the most recently issued request.
C14_LastRequestWins ==
    /\ (instInFlight = <<>> /\ lastInstReq.issued)
         => institutions = InstitutionsOf(lastInstReq)
    /\ (nameInFlight = <<>> /\ lastNameReq.issued)
         => recipientName = AccountNameOf(lastNameReq)
    /\ (rateInFlight = <<>> /\ lastRateReq.issued)
         => rate = RateOf(lastRateReq)

\* C15: in every reachable state and for each of the three fetchers, the
\* isFetching flag is true iff at least one request of that fetcher is in
\* flight; with two overlapping requests of the same fetcher, the flag does
\* not become false while the second is still in flight.
C15_FlagIffInFlight ==
    /\ isFetchingInstitutions <=> instInFlight # <<>>
    /\ isFetchingRecipientName <=> nameInFlight # <<>>
    /\ isFetchingRate <=> rateInFlight # <<>>

fetchState == <<instSlots, nameSlots, rateSlots, inFlight, formFields,
                formValues, transactionStatus, feeVars>>

\* C16: no request is issued with missing parameters: an institutions
\* request is never issued while currency is empty, a recipient-name request
\* never while accountIdentifier or institution is empty, a rate request
\* never while currency or token is empty or amount is 0 or unset; in each
\* of these cases the timer firing (or effect run) changes no state, the
\* isFetching flag included.
C16_NoRequestWithMissingParams ==
    [][/\ Len(instInFlight') > Len(instInFlight) => currency' # ""
       /\ (lastOp' = "change" /\ currency' = "")
            => UNCHANGED <<instSlots, instInFlight>>
       /\ Len(nameInFlight') > Len(nameInFlight)
            => accountIdentifier # "" /\ institution # ""
       /\ (lastOp' = "nameTimer" /\ (accountIdentifier = "" \/ institution = ""))
            => UNCHANGED fetchState
       /\ Len(rateInFlight') > Len(rateInFlight)
            => currency # "" /\ token # "" /\ amount \notin {0, AmountUnset}
       /\ (lastOp' = "rateTimer"
              /\ (currency = "" \/ token = "" \/ amount \in {0, AmountUnset}))
            => UNCHANGED fetchState]_vars

\* C17: submit and back are a round trip on the view while
\* transactionStatus is "idle": onSubmit(data) sets formValues to exactly
\* data, which selects the preview view when data has a field different from
\* "" and 0; the preview's back button then sets formValues to
\* INITIAL_FORM_STATE, which selects the form view again.  Neither changes
\* transactionStatus, rate, fee, recipientName or institutions.
C17_SubmitBackRoundTrip ==
    [][/\ lastOp' = "submit"
            => /\ \E m \in Memos \cup {""} : formValues' = FormData("base", m)
               /\ (\E f \in StringFields : formValues'[f] # "")
                     \/ formValues'.amount # 0
                  => View' = "preview"
       /\ lastOp' = "back"
            => /\ View = "preview"
               /\ formValues' = INITIAL_FORM_STATE
               /\ View' = "form"
       /\ lastOp' \in {"submit", "back"}
            => /\ transactionStatus = "idle"
               /\ UNCHANGED <<transactionStatus, rate, fee, recipientName,
                              institutions>>]_vars

\* Back from the preview of a submitted form: the form view is shown again,
\* and the rate, fee, recipient name and institutions fetched are kept.
C17_Witness ==
    /\ lastOp = "back"
    /\ View = "form"
    /\ formValues = INITIAL_FORM_STATE
    /\ rate # 0 /\ fee > 0 /\ recipientName # "" /\ institutions # <<>>

\* C18: from the status view, clearTransactionStatus sets transactionStatus
\* to "idle" and leaves formValues unchanged, and clearForm sets formValues
\* to INITIAL_FORM_STATE and leaves transactionStatus unchanged; hence after
\* clearTransactionStatus alone the preview view is shown iff formValues is
\* still non-empty, and the form view only when formValues has been cleared.
C18_StatusViewCallbacks ==
    [][/\ lastOp' = "clearTransactionStatus"
            => /\ View = "status"
               /\ transactionStatus' = "idle"
               /\ UNCHANGED formValues
               /\ View' = "preview" <=> formValues # INITIAL_FORM_STATE
               /\ View' = "form" <=> formValues = INITIAL_FORM_STATE
       /\ lastOp' = "clearForm"
            => /\ View = "status"
               /\ formValues' = INITIAL_FORM_STATE
               /\ UNCHANGED transactionStatus
               /\ View' = "status"]_vars

\* clearTransactionStatus alone, over a submitted form: the preview is shown.
C18_Witness ==
    /\ lastOp = "clearTransactionStatus"
    /\ transactionStatus = "idle"
    /\ formValues # INITIAL_FORM_STATE
    /\ View = "preview"

\* The rules of the form, for the data of one submission.
RulesHold(d) ==
    /\ d.token \in {"USDC", "USDT"}
    /\ d.currency \notin {Undefined, ""}
    /\ d.recipientBank # ""
    /\ d.memo # ""
    /\ d.amount >= MIN_AMOUNT /\ d.amount <= MAX_AMOUNT
    /\ Len(d.recipientAccount) = ACCOUNT_DIGITS
    /\ \A j \in 1..Len(d.recipientAccount) : d.recipientAccount[j] = "d"

====
